---- MODULE Spec2Model ----
(***************************************************************************)
(* Label-validation pipeline of regulate.ai.                               *)
(*                                                                         *)
(*  - Spec     : one run of labelValidationWorkflow                        *)
(*               (temporal/workflows/labelValidation.js) with the          *)
(*               activities it awaits: preprocessImageForOCR, performOCR,  *)
(*               assessOCRQuality, performAIValidation (with its provider  *)
(*               fallback) and performComplianceCheck.                     *)
(*  - SpecFDA  : one call of a regulatory entry point                      *)
(*               (validateIngredientsWithFDA,                              *)
(*               validateNutritionalClaimsWithFDA, checkFoodAdditiveStatus)*)
(*               through callFDAMCPTool and its subprocess.                *)
(*  - SpecGate : repeated calls of assessOCRQuality on one extraction      *)
(*               result, with the clock its assessedAt is read from.       *)
(*  - SpecClient : two calls of runOCRValidationWorkflow                   *)
(*               (temporal/clients/connection.js) and the module's client. *)
(*  - SpecHealth : one POST /test-mcp-health request                       *)
(*               (backend/vitest.setup.js) with its subprocess and timer.  *)
(*  - SpecOcrValidate : one POST /ocr-validate request                     *)
(*               (backend/vitest.setup.js) through runSimpleOCR,           *)
(*               runSimpleAIValidation and validateIngredientsWithFDA.     *)
(*                                                                         *)
(* JavaScript objects are records; a key that the code does not set is     *)
(* absent from the record's DOMAIN.  Confidences are kept in percent       *)
(* (0.85 is 85).  Timestamps and processing times are left out of the      *)
(* workflow run and of the regulatory calls; SpecGate keeps assessedAt.    *)
(***************************************************************************)
EXTENDS Integers, Sequences, FiniteSets, TLC

(* ------------------------------ bounds -------------------------------- *)

\* longest ingredient list handed to a stage
MaxIngredients == 3

\* longest claim list handed to validateNutritionalClaimsWithFDA
MaxClaims == 1

\* most calls of assessOCRQuality made on one extraction result
MaxGateCalls == 3

\* last millisecond the clock reaches
MaxClock == 2

(* ------------------------- program constants -------------------------- *)

LowConfidence == 70
ModerateConfidence == 85
ShortTextLength == 50
ParseStubConfidence == 40
BothFailedConfidence == 30
ClaudeOnlyConfidence == 40
ComplianceScore == 95

(* --------------------------- object helpers --------------------------- *)

\* the object literal {}
EmptyObject == [k \in {} |-> 0]

\* a variable that has not been assigned yet
Null == [null |-> TRUE]

Has(obj, key) == key \in DOMAIN obj

\* { ...a, ...b }
Spread(a, b) ==
  [k \in (DOMAIN a) \cup (DOMAIN b) |-> IF k \in DOMAIN b THEN b[k] ELSE a[k]]

Range(seq) == { seq[i] : i \in DOMAIN seq }

IngredientPool == <<"water", "salt", "sugar", "milk">>

IngredientLists == { SubSeq(IngredientPool, 1, n) : n \in 0..MaxIngredients }

(* ------------------------------ inputs -------------------------------- *)

\* the job payload: which image reference it carries
LabelDatas ==
  [ filename : {"label.png"},
    imageSource : {"imageUrl", "imagePath", "imageBuffer", "none"} ]

ShortText == "INGREDIENTS: Water, Sugar, Salt"
LongText == "NUTRITION FACTS Serving Size 1 cup (240ml) Calories 150 INGREDIENTS: Water, Sugar, Salt"

\* what Tesseract.recognize resolves with (data.text already trimmed)
EngineData ==
  { [text |-> "",        confidence |-> 0,  totalWords |-> 0,  lowConfidenceWords |-> 0],
    [text |-> ShortText, confidence |-> 90, totalWords |-> 5,  lowConfidenceWords |-> 0],
    [text |-> ShortText, confidence |-> 60, totalWords |-> 5,  lowConfidenceWords |-> 3],
    [text |-> LongText,  confidence |-> 92, totalWords |-> 15, lowConfidenceWords |-> 0],
    [text |-> LongText,  confidence |-> 85, totalWords |-> 15, lowConfidenceWords |-> 3],
    [text |-> LongText,  confidence |-> 84, totalWords |-> 15, lowConfidenceWords |-> 4],
    [text |-> LongText,  confidence |-> 70, totalWords |-> 15, lowConfidenceWords |-> 1],
    [text |-> LongText,  confidence |-> 69, totalWords |-> 15, lowConfidenceWords |-> 8] }

EngineOutcomes ==
  { [ok |-> FALSE, error |-> "OCR processing failed"] }
    \cup { [ok |-> TRUE, data |-> d] : d \in EngineData }

\* JSON objects a provider may answer with
FullObject(valid, ings, issues) ==
  [ isValid |-> valid,
    confidence |-> IF valid THEN 92 ELSE 60,
    correctedText |-> LongText,
    extractedInformation |-> [ingredients |-> ings],
    ocrIssuesFound |-> <<>>,
    completenessScore |-> 7,
    complianceIssues |-> issues,
    recommendations |-> <<>>,
    qualityImprovement |-> "Moderate" ]

SparseObject == [someOtherField |-> "value"]

AiObjects ==
  { FullObject(v, l, i) :
      v \in BOOLEAN, l \in IngredientLists,
      i \in { <<>>, <<"Missing required allergen statement">> } }
    \cup { SparseObject }

\* What the three regular-expression / JSON.parse attempts of
\* parseAIResponse find in a completion text:
\*   fence - the capture of /```json\n([\s\S]*?)\n```/
\*   brace - the match of /{[\s\S]*}/
\*   whole - the entire text
\* each either absent ("none"), present but rejected by JSON.parse ("bad"),
\* or present and parsed to obj ("json").
NoMatch == [m |-> "none"]
BadJson == [m |-> "bad"]
Json(obj) == [m |-> "json", obj |-> obj]

AiTexts ==
  \* ```json\n{...}\n```
  { [fence |-> Json(o), brace |-> Json(o), whole |-> BadJson] : o \in AiObjects }
  \* {...}
    \cup { [fence |-> NoMatch, brace |-> Json(o), whole |-> Json(o)] : o \in AiObjects }
  \* Here is the result: {...}
    \cup { [fence |-> NoMatch, brace |-> Json(o), whole |-> BadJson] : o \in AiObjects }
  \* ```json\nResult: {...}\n``` : the fence captures "Result: {...}", which
  \* JSON.parse rejects, while the brace scan finds the object
    \cup { [fence |-> BadJson, brace |-> Json(o), whole |-> BadJson] : o \in AiObjects }
  \* "This is not valid JSON"; a truncated fenced block; prose with two objects
    \cup { [fence |-> NoMatch, brace |-> NoMatch, whole |-> BadJson],
           [fence |-> BadJson, brace |-> BadJson, whole |-> BadJson],
           [fence |-> NoMatch, brace |-> BadJson, whole |-> BadJson] }

\* how a provider call settles: it rejects, or resolves with a completion
\* whose first content block carries text
ProviderOutcomes ==
  { [threw |-> TRUE, message |-> "API error"] }
    \cup { [threw |-> FALSE, text |-> t] : t \in AiTexts }

(* ------------------------------- state -------------------------------- *)

VARIABLES
  labelData,          \* the job payload of the run
  openai,             \* TRUE iff the module-level OpenAI client was created
  pc,                 \* position of labelValidationWorkflow
  preprocessedData,
  ocrResult,
  qualityAssessment,
  validationResult,
  complianceResult,
  finalResult,
  thrown,             \* the error the workflow rethrew, or Null
  engine,             \* how Tesseract.recognize settled in performOCR; pending before
  events,             \* log of activity invocations and returns
  aipc,               \* position inside performAIValidation
  aiLog,              \* provider requests sent and settled, in order
  claudeError         \* the error caught from the primary attempt, or Null

wfVars ==
  << labelData, openai, pc, preprocessedData, ocrResult, qualityAssessment,
     validationResult, complianceResult, finalResult, thrown, engine, events,
     aipc, aiLog, claudeError >>

VARIABLES
  fpc,                \* position of the regulatory entry point being called
  fcall,              \* the entry point and its argument, or Null
  child,              \* the MCP server subprocess: none, running, hung, closed
  spawns,             \* subprocesses spawned so far
  request,            \* the tools/call request written to the child's stdin
  lastClose,          \* exit code and last stdout line of the closed child, or Null
  fresult             \* what the entry point returned, or Null

fdaVars == << fpc, fcall, child, spawns, request, lastClose, fresult >>

VARIABLES
  gateInput,          \* the ocrResult object handed to assessOCRQuality, or Null
  gateCalls,          \* the calls of assessOCRQuality made on it, in order
  clock               \* what Date.now() reads, in milliseconds

gateVars == << gateInput, gateCalls, clock >>

VARIABLES
  client,             \* connection.js's module-level client: Null or a Client
  clientsCreated,     \* how many times new Client(...) has run in this process
  runpc,              \* position of each call of runOCRValidationWorkflow
  temporalClient,     \* each call's local temporalClient
  imageData,          \* each call's argument
  runResult           \* what each call returned, or Null

clientVars == << client, clientsCreated, runpc, temporalClient, imageData, runResult >>

VARIABLES
  hpc,                \* position of the POST /test-mcp-health request
  hbody,              \* req.body of the request, or Null
  hchild,             \* the subprocess the handler spawned: none, running, killed, closed
  responseData,       \* what the child has written to stdout so far
  hevents,            \* which of "close" and "timer" have occurred, in order
  resCalls,           \* the calls of res.json made for the request, in order
  sent                \* the HTTP responses written for the request, in order

healthVars == << hpc, hbody, hchild, responseData, hevents, resCalls, sent >>

VARIABLES
  ovpc,               \* position of the POST /ocr-validate request
  file,               \* req.file of the request, or Null
  ocrResponse,        \* what runSimpleOCR returned, or Null
  aiValidation,       \* the handler's aiValidation
  fdaValidation,      \* the handler's fdaValidation
  invoked,            \* the stages the handler has called, in order
  ovResponse          \* the HTTP response of the request, or Null

ovVars == << ovpc, file, ocrResponse, aiValidation, fdaValidation, invoked, ovResponse >>

vars == << wfVars, fdaVars, gateVars, clientVars, healthVars, ovVars >>

(* ------------------------ the activities, as code --------------------- *)

\* performOCR's catch block
OCRFailure(ld, message) ==
  [ success |-> FALSE, error |-> message, filename |-> ld.filename ]

performOCR(ld, outcome) ==
  IF ld.imageSource = "none"
    THEN OCRFailure(ld, "No valid image source provided (imageUrl, imagePath, or imageBuffer)")
  ELSE IF ~outcome.ok
    THEN OCRFailure(ld, outcome.error)
  ELSE
    [ text |-> outcome.data.text,
      confidence |-> outcome.data.confidence,
      totalWords |-> outcome.data.totalWords,
      lowConfidenceWords |-> outcome.data.lowConfidenceWords,
      filename |-> ld.filename,
      imageSource |-> ld.imageSource,
      detectedSections |-> EmptyObject ]

\* whether Tesseract.recognize was reached, and how it settled
EngineSettled(ld, outcome) ==
  IF ld.imageSource = "none" THEN "not called"
  ELSE IF outcome.ok THEN "resolved" ELSE "rejected"

preprocessImageForOCR(ld) == Spread(ld, [preprocessed |-> TRUE])

\* ocrResult.text.length is read of an undefined text: TypeError, rethrown
assessOCRQualityRaises(ocr) == ~Has(ocr, "text")

\* the gate with the lower threshold taken inclusively
assessOCRQuality_InclusiveThreshold(ocr) ==
  LET low      == ocr.confidence <= LowConfidence
      moderate == ~low /\ ocr.confidence < ModerateConfidence
      manyLow  == ocr.lowConfidenceWords * 5 > ocr.totalWords
      short    == Len(ocr.text) < ShortTextLength
  IN  [ overall |-> IF low THEN "poor" ELSE IF moderate THEN "fair" ELSE "good",
        confidence |-> ocr.confidence,
        issues |->
          (IF low THEN <<"Low overall confidence">>
           ELSE IF moderate THEN <<"Moderate confidence">> ELSE <<>>)
          \o (IF manyLow THEN <<"High number of low confidence words">> ELSE <<>>)
          \o (IF short THEN <<"Very short text extracted">> ELSE <<>>),
        recommendations |->
          (IF low THEN <<"Consider image preprocessing or manual review">>
           ELSE IF moderate THEN <<"Verify critical sections manually">> ELSE <<>>)
          \o (IF manyLow THEN <<"Review text for accuracy">> ELSE <<>>)
          \o (IF short THEN <<"Check if image contains readable text">> ELSE <<>>) ]

assessOCRQuality(ocr) ==
  LET low      == ocr.confidence < LowConfidence
      moderate == ~low /\ ocr.confidence < ModerateConfidence
      manyLow  == ocr.lowConfidenceWords * 5 > ocr.totalWords
      short    == Len(ocr.text) < ShortTextLength
  IN  [ overall |-> IF low THEN "poor" ELSE IF moderate THEN "fair" ELSE "good",
        confidence |-> ocr.confidence,
        issues |->
          (IF low THEN <<"Low overall confidence">>
           ELSE IF moderate THEN <<"Moderate confidence">> ELSE <<>>)
          \o (IF manyLow THEN <<"High number of low confidence words">> ELSE <<>>)
          \o (IF short THEN <<"Very short text extracted">> ELSE <<>>),
        recommendations |->
          (IF low THEN <<"Consider image preprocessing or manual review">>
           ELSE IF moderate THEN <<"Verify critical sections manually">> ELSE <<>>)
          \o (IF manyLow THEN <<"Review text for accuracy">> ELSE <<>>)
          \o (IF short THEN <<"Check if image contains readable text">> ELSE <<>>) ]

\* the object parseAIResponse returns from its catch block
ParseStub(fallbackText) ==
  [ isValid |-> FALSE,
    confidence |-> ParseStubConfidence,
    correctedText |-> fallbackText,
    extractedInformation |-> EmptyObject,
    ocrIssuesFound |-> <<"Could not parse AI validation response">>,
    completenessScore |-> 4,
    complianceIssues |-> <<"AI response parsing failed">>,
    recommendations |-> <<"Manual review recommended">>,
    qualityImprovement |-> "None",
    rawAiResponse |-> "..." ]

parseAIResponse_FallThrough(aiResponse, fallbackText) ==
  IF aiResponse.fence.m = "json" THEN aiResponse.fence.obj
  ELSE IF aiResponse.brace.m = "json" THEN aiResponse.brace.obj
  ELSE IF aiResponse.whole.m = "json" THEN aiResponse.whole.obj
  ELSE ParseStub(fallbackText)

\* One try block around the three attempts: the first pattern that matches
\* decides, and a JSON.parse error of its text goes to the catch, which
\* returns the stub.
parseAIResponse(aiResponse, fallbackText) ==
  IF aiResponse.fence.m # "none"
    THEN IF aiResponse.fence.m = "json"
           THEN aiResponse.fence.obj ELSE ParseStub(fallbackText)
  ELSE IF aiResponse.brace.m # "none"
    THEN IF aiResponse.brace.m = "json"
           THEN aiResponse.brace.obj ELSE ParseStub(fallbackText)
  ELSE IF aiResponse.whole.m = "json"
    THEN aiResponse.whole.obj ELSE ParseStub(fallbackText)

\* the prompt template, which embeds the OCR text
Prompt(ocrText) == [template |-> "transcribe-and-validate", ocrText |-> ocrText]

ClaudeModel == "claude-3-5-sonnet-20241022"
OpenAIModel == "gpt-4o-mini"

BothFailedStub(ocrText, claudeMessage, openaiMessage) ==
  [ isValid |-> FALSE,
    confidence |-> BothFailedConfidence,
    correctedText |-> ocrText,
    extractedInformation |-> EmptyObject,
    ocrIssuesFound |-> <<"Both AI providers failed to process">>,
    completenessScore |-> 3,
    complianceIssues |-> <<"AI validation unavailable">>,
    recommendations |-> <<"Manual review required">>,
    qualityImprovement |-> "None",
    errors |-> [claude |-> claudeMessage, openai |-> openaiMessage] ]

ClaudeOnlyStub(ocrText, claudeMessage) ==
  [ isValid |-> FALSE,
    confidence |-> ClaudeOnlyConfidence,
    correctedText |-> ocrText,
    extractedInformation |-> EmptyObject,
    ocrIssuesFound |-> <<"Only Claude available, but failed to process">>,
    completenessScore |-> 4,
    complianceIssues |-> <<"AI validation partially unavailable">>,
    recommendations |-> <<"Configure OpenAI as backup or manual review">>,
    qualityImprovement |-> "None",
    errors |-> [claude |-> claudeMessage, openai |-> "Not configured"] ]

\* "Add metadata": the record performAIValidation returns
AIResult(parsed, ocrText, aiModel, ocrQuality) ==
  Spread(parsed,
         [ originalOcrText |-> ocrText,
           aiModel |-> aiModel,
           inputQuality |-> ocrQuality.overall,
           inputConfidence |-> ocrQuality.confidence ])

performComplianceCheck(data) ==
  [ compliant |-> TRUE, violations |-> <<>>, warnings |-> <<>>,
    score |-> ComplianceScore ]

\* !!x for the fields the workflow coerces
TruthyText(obj) == Has(obj, "text") /\ obj.text # ""
TruthyFlag(obj, key) == Has(obj, key) /\ obj[key] = TRUE

FinalResult(ld, pre, ocr, quality, validation, compliance) ==
  [ filename |-> ld.filename,
    status |-> IF compliance.compliant THEN "APPROVED" ELSE "REQUIRES_REVIEW",
    ocrResult |-> ocr,
    qualityAssessment |-> quality,
    validationResult |-> validation,
    complianceResult |-> compliance,
    processingSteps |->
      [ preprocessing |-> pre.preprocessed,
        ocrCompleted |-> TruthyText(ocr),
        qualityAssessed |-> Has(quality, "overall") /\ quality.overall # "",
        aiValidated |-> TruthyFlag(validation, "isValid"),
        complianceChecked |-> TruthyFlag(compliance, "compliant") ] ]

(* ----------------------- labelValidationWorkflow ---------------------- *)

\* entries of aiLog
Request(provider, model, prompt) ==
  [kind |-> "request", provider |-> provider, model |-> model, prompt |-> prompt]
Settled(provider, outcome) ==
  [kind |-> "settled", provider |-> provider, outcome |-> outcome]

\* entries of events
Invoke(stage) == <<"invoke", stage>>
Return(stage) == <<"return", stage>>
Raise(stage)  == <<"raise", stage>>

Runs == {1, 2}

\* the process has just loaded connection.js: no call has been made
ClientIdle ==
  /\ client = Null
  /\ clientsCreated = 0
  /\ runpc = [r \in Runs |-> "idle"]
  /\ temporalClient = [r \in Runs |-> Null]
  /\ imageData = [r \in Runs |-> Null]
  /\ runResult = [r \in Runs |-> Null]

\* no /test-mcp-health request has arrived
HealthIdle ==
  /\ hpc = "idle"
  /\ hbody = Null
  /\ hchild = "none"
  /\ responseData = ""
  /\ hevents = <<>>
  /\ resCalls = <<>>
  /\ sent = <<>>

\* no /ocr-validate request has arrived
OvIdle ==
  /\ ovpc = "idle"
  /\ file = Null
  /\ ocrResponse = Null
  /\ aiValidation = Null
  /\ fdaValidation = Null
  /\ invoked = <<>>
  /\ ovResponse = Null

\* no call of assessOCRQuality outside a workflow run has been made
GateIdle ==
  /\ gateInput = Null
  /\ gateCalls = <<>>
  /\ clock = 0

Init ==
  /\ GateIdle
  /\ ClientIdle
  /\ HealthIdle
  /\ OvIdle
  /\ labelData \in LabelDatas
  /\ openai \in BOOLEAN
  /\ pc = "preprocess"
  /\ preprocessedData = Null
  /\ ocrResult = Null
  /\ qualityAssessment = Null
  /\ validationResult = Null
  /\ complianceResult = Null
  /\ finalResult = Null
  /\ thrown = Null
  /\ engine = "pending"
  /\ events = <<>>
  /\ aipc = "idle"
  /\ aiLog = <<>>
  /\ claudeError = Null
  /\ fpc = "idle"
  /\ fcall = Null
  /\ child = "none"
  /\ spawns = 0
  /\ request = Null
  /\ lastClose = Null
  /\ fresult = Null

\* Step 1: Image Preprocessing
Step1_Preprocess ==
  /\ pc = "preprocess"
  /\ preprocessedData' = preprocessImageForOCR(labelData)
  /\ events' = events \o << Invoke("preprocessImageForOCR"), Return("preprocessImageForOCR") >>
  /\ pc' = "ocr"
  /\ UNCHANGED << labelData, openai, engine, ocrResult, qualityAssessment, validationResult,
                  complianceResult, finalResult, thrown, aipc, aiLog, claudeError >>
  /\ UNCHANGED << fdaVars, gateVars, clientVars, healthVars, ovVars >>

\* Step 2: OCR Processing
Step2_OCR ==
  /\ pc = "ocr"
  /\ \E outcome \in EngineOutcomes :
       /\ ocrResult' = performOCR(preprocessedData, outcome)
       /\ engine' = EngineSettled(preprocessedData, outcome)
  /\ events' = events \o << Invoke("performOCR"), Return("performOCR") >>
  /\ pc' = "quality"
  /\ UNCHANGED << labelData, openai, preprocessedData, qualityAssessment, validationResult,
                  complianceResult, finalResult, thrown, aipc, aiLog, claudeError >>
  /\ UNCHANGED << fdaVars, gateVars, clientVars, healthVars, ovVars >>

\* Step 3: OCR Quality Assessment; an activity that throws makes the
\* workflow's catch block rethrow
Step3_Quality ==
  /\ pc = "quality"
  /\ IF assessOCRQualityRaises(ocrResult)
       THEN /\ thrown' = [message |-> "Cannot read properties of undefined (reading 'length')"]
            /\ events' = events \o << Invoke("assessOCRQuality"), Raise("assessOCRQuality") >>
            /\ pc' = "failed"
            /\ UNCHANGED qualityAssessment
       ELSE /\ qualityAssessment' = assessOCRQuality(ocrResult)
            /\ events' = events \o << Invoke("assessOCRQuality"), Return("assessOCRQuality") >>
            /\ pc' = "ai"
            /\ UNCHANGED thrown
  /\ UNCHANGED << labelData, openai, engine, preprocessedData, ocrResult, validationResult,
                  complianceResult, finalResult, aipc, aiLog, claudeError >>
  /\ UNCHANGED << fdaVars, gateVars, clientVars, healthVars, ovVars >>

\* Step 4: AI Validation.  performAIValidation builds the prompt and sends
\* it to Claude.
AI_CallPrimary ==
  /\ pc = "ai" /\ aipc = "idle"
  /\ aiLog' = Append(aiLog, Request("anthropic", ClaudeModel, Prompt(ocrResult.text)))
  /\ events' = Append(events, Invoke("performAIValidation"))
  /\ aipc' = "primary"
  /\ UNCHANGED << labelData, openai, engine, pc, preprocessedData, ocrResult, qualityAssessment,
                  validationResult, complianceResult, finalResult, thrown, claudeError >>
  /\ UNCHANGED << fdaVars, gateVars, clientVars, healthVars, ovVars >>

\* performAIValidation returns to the workflow
AIReturn(parsed, aiModel) ==
  /\ validationResult' = AIResult(parsed, ocrResult.text, aiModel, qualityAssessment)
  /\ events' = Append(events, Return("performAIValidation"))
  /\ aipc' = "done"
  /\ pc' = "compliance"

\* the Claude request settles, with the fallback also taken when the
\* completion does not parse
AI_PrimarySettles_FallbackOnParseFailure ==
  /\ pc = "ai" /\ aipc = "primary"
  /\ \E outcome \in ProviderOutcomes :
       LET settled == Append(aiLog, Settled("anthropic", outcome))
           failed  == outcome.threw
                        \/ parseAIResponse(outcome.text, ocrResult.text)
                             = ParseStub(ocrResult.text)
           message == IF outcome.threw THEN outcome.message ELSE "Unexpected token"
       IN
       IF ~failed
         THEN /\ AIReturn(parseAIResponse(outcome.text, ocrResult.text), ClaudeModel)
              /\ aiLog' = settled
              /\ UNCHANGED claudeError
       ELSE IF openai
         THEN /\ claudeError' = [message |-> message]
              /\ aiLog' = Append(settled,
                                 Request("openai", OpenAIModel, Prompt(ocrResult.text)))
              /\ aipc' = "secondary"
              /\ UNCHANGED << pc, validationResult, events >>
         ELSE /\ claudeError' = [message |-> message]
              /\ AIReturn(ClaudeOnlyStub(ocrResult.text, message), ClaudeModel)
              /\ aiLog' = settled
  /\ UNCHANGED << labelData, openai, engine, preprocessedData, ocrResult, qualityAssessment,
                  complianceResult, finalResult, thrown >>
  /\ UNCHANGED << fdaVars, gateVars, clientVars, healthVars, ovVars >>

\* the Claude request settles
AI_PrimarySettles ==
  /\ pc = "ai" /\ aipc = "primary"
  /\ \E outcome \in ProviderOutcomes :
       LET settled == Append(aiLog, Settled("anthropic", outcome)) IN
       IF ~outcome.threw
         THEN /\ AIReturn(parseAIResponse(outcome.text, ocrResult.text), ClaudeModel)
              /\ aiLog' = settled
              /\ UNCHANGED claudeError
       ELSE IF openai
         THEN /\ claudeError' = [message |-> outcome.message]
              /\ aiLog' = Append(settled,
                                 Request("openai", OpenAIModel, Prompt(ocrResult.text)))
              /\ aipc' = "secondary"
              /\ UNCHANGED << pc, validationResult, events >>
         ELSE /\ claudeError' = [message |-> outcome.message]
              /\ AIReturn(ClaudeOnlyStub(ocrResult.text, outcome.message), ClaudeModel)
              /\ aiLog' = settled
  /\ UNCHANGED << labelData, openai, engine, preprocessedData, ocrResult, qualityAssessment,
                  complianceResult, finalResult, thrown >>
  /\ UNCHANGED << fdaVars, gateVars, clientVars, healthVars, ovVars >>

\* the OpenAI request settles
AI_SecondarySettles ==
  /\ pc = "ai" /\ aipc = "secondary"
  /\ \E outcome \in ProviderOutcomes :
       /\ aiLog' = Append(aiLog, Settled("openai", outcome))
       /\ IF ~outcome.threw
            THEN AIReturn(parseAIResponse(outcome.text, ocrResult.text), OpenAIModel)
            ELSE AIReturn(BothFailedStub(ocrResult.text, claudeError.message,
                                         outcome.message), OpenAIModel)
  /\ UNCHANGED << labelData, openai, engine, preprocessedData, ocrResult, qualityAssessment,
                  complianceResult, finalResult, thrown, claudeError >>
  /\ UNCHANGED << fdaVars, gateVars, clientVars, healthVars, ovVars >>

\* Step 5 without the activity: the mock verdict is filled in by the
\* workflow itself
Step5_WithoutActivity ==
  /\ pc = "compliance"
  /\ complianceResult' = performComplianceCheck([validationResult |-> validationResult])
  /\ pc' = "final"
  /\ UNCHANGED << labelData, openai, engine, preprocessedData, ocrResult, qualityAssessment,
                  validationResult, finalResult, thrown, events, aipc, aiLog, claudeError >>
  /\ UNCHANGED << fdaVars, gateVars, clientVars, healthVars, ovVars >>

\* Step 5: Compliance Check
Step5_ComplianceCheck ==
  /\ pc = "compliance"
  /\ complianceResult' = performComplianceCheck([validationResult |-> validationResult])
  /\ events' = events \o << Invoke("performComplianceCheck"), Return("performComplianceCheck") >>
  /\ pc' = "final"
  /\ UNCHANGED << labelData, openai, engine, preprocessedData, ocrResult, qualityAssessment,
                  validationResult, finalResult, thrown, aipc, aiLog, claudeError >>
  /\ UNCHANGED << fdaVars, gateVars, clientVars, healthVars, ovVars >>

\* "Return final result"
ReturnFinalResult ==
  /\ pc = "final"
  /\ finalResult' = FinalResult(labelData, preprocessedData, ocrResult, qualityAssessment,
                                validationResult, complianceResult)
  /\ events' = Append(events, Invoke("finalResult"))
  /\ pc' = "done"
  /\ UNCHANGED << labelData, openai, engine, preprocessedData, ocrResult, qualityAssessment,
                  validationResult, complianceResult, thrown, aipc, aiLog, claudeError >>
  /\ UNCHANGED << fdaVars, gateVars, clientVars, healthVars, ovVars >>

Next ==
  \/ Step1_Preprocess
  \/ Step2_OCR
  \/ Step3_Quality
  \/ AI_CallPrimary
  \/ AI_PrimarySettles
  \/ AI_SecondarySettles
  \/ Step5_ComplianceCheck
  \/ ReturnFinalResult

Spec == Init /\ [][Next]_vars

(* ================= the regulatory entry points (SpecFDA) =============== *)

(* ---------------- the MCP server the subprocess runs ------------------ *)

FdaIngredientLists == IngredientLists \cup { <<"milk">>, <<"red dye 40", "water">> }

\* checkGRASStatus's knownGRAS, for the ingredients of the pool
KnownGRAS == { "salt", "sugar", "water", "milk" }

checkGRASStatus(ingredient) ==
  [ status |-> IF ingredient \in KnownGRAS THEN "GRAS" ELSE "REQUIRES_REVIEW" ]

\* performSafetyCheck: allergen and artificial-additive warnings
performSafetyCheck(ingredient) ==
  LET warnings ==
        (IF ingredient = "milk"
           THEN <<"Contains milk - Major allergen requiring disclosure">> ELSE <<>>)
        \o (IF ingredient = "red dye 40"
              THEN <<"Contains artificial additives - verify FDA approval status">>
              ELSE <<>>)
  IN  [ level |-> IF warnings # <<>> THEN "WARNING" ELSE "SAFE", warnings |-> warnings ]

\* FDAValidationServer.validateIngredients; found is the set of ingredients
\* searchFoodDataCentral reports as found
validateIngredients(ingredients, found) ==
  LET results ==
        [ i \in DOMAIN ingredients |->
            [ ingredient |-> ingredients[i],
              fdaApproved |-> ingredients[i] \in found,
              grasStatus |-> checkGRASStatus(ingredients[i]).status,
              safetyLevel |-> performSafetyCheck(ingredients[i]).level,
              warnings |-> performSafetyCheck(ingredients[i]).warnings ] ]
  IN  [ validationResults |-> results,
        summary |->
          [ totalIngredients |-> Len(ingredients),
            approved |-> Cardinality({ i \in DOMAIN results : results[i].fdaApproved }),
            warnings |-> Cardinality({ i \in DOMAIN results : results[i].warnings # <<>> }) ] ]

\* the claims a caller may pass, in lower case; "organic" is in no table
ClaimPool == { "low fat", "sodium free", "high fiber", "good source of fiber", "organic" }

RECURSIVE SeqsUpTo(_, _)
SeqsUpTo(S, n) ==
  IF n = 0 THEN { <<>> }
  ELSE SeqsUpTo(S, n - 1)
         \cup { Append(q, x) : q \in { r \in SeqsUpTo(S, n - 1) : Len(r) = n - 1 }, x \in S }

ClaimLists == SeqsUpTo(ClaimPool, MaxClaims)

\* A value of the nutritional data: a string such as "2.5g", or a number.
\* Quantities are kept in tenths of the unit (3 g is 30, 2.5 g is 25).
Text(tenths)   == [type |-> "string", tenths |-> tenths]
Number(tenths) == [type |-> "number", tenths |-> tenths]

NutritionalInfos ==
  { EmptyObject }
    \cup { [totalFat |-> v] : v \in { Number(20), Number(50), Text(20), Text(30), Text(50) } }
    \cup { [sodium |-> v] : v \in { Text(40), Text(50), Text(60) } }
    \cup { [dietaryFiber |-> v] : v \in { Text(20), Text(25), Text(50), Text(60) } }

\* validateSingleClaim's fdaThresholds, in the order of the object literal
ClaimTypes ==
  << "low fat", "fat free", "low sodium", "sodium free", "high fiber",
     "good source of fiber" >>

Thresholds(claimType) ==
  CASE claimType = "low fat"              -> [nutrient |-> "totalFat", maxValue |-> 30]
    [] claimType = "fat free"             -> [nutrient |-> "totalFat", maxValue |-> 5]
    [] claimType = "low sodium"           -> [nutrient |-> "sodium", maxValue |-> 1400]
    [] claimType = "sodium free"          -> [nutrient |-> "sodium", maxValue |-> 50]
    [] claimType = "high fiber"           -> [nutrient |-> "dietaryFiber", maxValue |-> 50]
    [] claimType = "good source of fiber" -> [nutrient |-> "dietaryFiber", maxValue |-> 25]

\* nutritionalData[nutrient]?.replace(...): a number has no replace method
checkNutritionalThresholdRaises(nutritionalData, thresholds) ==
  /\ Has(nutritionalData, thresholds.nutrient)
  /\ nutritionalData[thresholds.nutrient].type = "number"

\* parseFloat(nutritionalData[nutrient]?.replace(/[^\d.]/g, '') || '0')
actualValue(nutritionalData, nutrient) ==
  IF Has(nutritionalData, nutrient) THEN nutritionalData[nutrient].tenths ELSE 0

checkNutritionalThreshold(nutritionalData, thresholds) ==
  ~(actualValue(nutritionalData, thresholds.nutrient) > thresholds.maxValue)

\* the first claim type of the table that normalizedClaim includes; the
\* claims of ClaimPool include a claim type only by being equal to it
MatchedClaimTypes(claim) == { k \in DOMAIN ClaimTypes : ClaimTypes[k] = claim }

validateSingleClaimRaises(claim, nutritionalData) ==
  /\ MatchedClaimTypes(claim) # {}
  /\ checkNutritionalThresholdRaises(nutritionalData, Thresholds(claim))

\* the reason is a template with the claim type interpolated; the
\* interpolated value is kept as a field
validateSingleClaim(claim, nutritionalData) ==
  LET recognized == MatchedClaimTypes(claim) # {}
      isValid == recognized /\ checkNutritionalThreshold(nutritionalData, Thresholds(claim))
  IN  [ claim |-> claim,
        isValid |-> isValid,
        reason |->
          IF ~recognized
            THEN [text |-> "Claim not recognized or cannot be validated"]
          ELSE IF isValid
            THEN [text |-> "Claim meets FDA requirements for", claimType |-> claim]
            ELSE [text |-> "Claim does not meet FDA requirements for", claimType |-> claim],
        fdaSource |-> "FDA Nutrition Labeling Guidelines" ]

validateNutritionalClaimsRaises(claims, nutritionalData) ==
  \E i \in DOMAIN claims : validateSingleClaimRaises(claims[i], nutritionalData)

\* FDAValidationServer.validateNutritionalClaims
validateNutritionalClaims(claims, nutritionalData) ==
  [ claimValidations |->
      [ i \in DOMAIN claims |-> validateSingleClaim(claims[i], nutritionalData) ],
    source |-> "FDA Nutritional Claims Validation" ]

Additives == { "citric acid", "unobtainium" }

\* FDAValidationServer.checkAdditiveStatus
checkAdditiveStatus(additive) ==
  IF additive = "citric acid"
    THEN [ additive |-> additive, status |-> "APPROVED", cfr |-> "21 CFR 182.6033" ]
    ELSE [ additive |-> additive, status |-> "UNKNOWN",
           cfr |-> "Not found - manual verification required" ]

\* the payloads the tool named in a request can compute
ToolPayloads(req) ==
  IF req.name = "validate_ingredients"
    THEN { validateIngredients(req.arguments.ingredients, f) :
             f \in SUBSET Range(req.arguments.ingredients) }
  ELSE IF req.name = "validate_nutritional_claims"
    THEN IF validateNutritionalClaimsRaises(req.arguments.claims,
                                            req.arguments.nutritionalData)
           THEN {}
           ELSE { validateNutritionalClaims(req.arguments.claims,
                                            req.arguments.nutritionalData) }
  ELSE { checkAdditiveStatus(req.arguments.additive) }

\* a content block whose text is JSON.stringify(payload), or is not JSON
JsonText(payload) == [type |-> "text", text |-> [json |-> TRUE, value |-> payload]]
ErrorText == [type |-> "text", text |-> [json |-> FALSE]]

\* the JSON-RPC message on the last line of stdout, once parsed
Envelope(content) == [jsonrpc |-> "2.0", id |-> 1, result |-> [content |-> content]]
ErrorEnvelope == [jsonrpc |-> "2.0", id |-> 1, error |-> [code |-> -32603]]

\* what the last stdout line is: not JSON at all, or a JSON-RPC message
StdoutLines(req) ==
  { [parsable |-> FALSE] }
    \cup { [parsable |-> TRUE, json |-> Envelope(<<JsonText(pl)>>)] : pl \in ToolPayloads(req) }
    \cup { [parsable |-> TRUE, json |-> Envelope(<<ErrorText>>)],
           [parsable |-> TRUE, json |-> Envelope(<<>>)],
           [parsable |-> TRUE, json |-> ErrorEnvelope] }

\* how the subprocess can close
ChildCloses(req) ==
  { [code |-> 0, line |-> l] : l \in StdoutLines(req) }
    \cup { [code |-> 1, line |-> [parsable |-> FALSE]] }

(* --------------------------- callFDAMCPTool --------------------------- *)

\* the request callFDAMCPTool writes to the child's stdin
McpRequest(toolName, args) == [name |-> toolName, arguments |-> args]

\* the child's close handler: how the promise of callFDAMCPTool settles
callFDAMCPTool(close) ==
  IF close.code # 0
    THEN [rejected |-> TRUE, message |-> "MCP server exited with code"]
  ELSE IF ~close.line.parsable
    THEN [rejected |-> TRUE, message |-> "Failed to parse MCP response"]
  ELSE [rejected |-> FALSE, value |-> close.line.json]

(* --------------------- validateIngredientsWithFDA --------------------- *)

Finding(type, severity, message, source, sourceTag) ==
  [ type |-> type, severity |-> severity, message |-> message,
    source |-> source, sourceTag |-> sourceTag ]

\* let ingredientsToValidate = ingredients; falls back to
\* extractedInformation.ingredients when the list is empty
ingredientsToValidate(data) ==
  LET ingredients == IF Has(data, "ingredients") THEN data.ingredients ELSE <<>>
      extractedInformation ==
        IF Has(data, "extractedInformation") THEN data.extractedInformation ELSE EmptyObject
  IN  IF ingredients = <<>> /\ Has(extractedInformation, "ingredients")
        THEN extractedInformation.ingredients
        ELSE ingredients

RECURSIVE WarningIssues(_, _)
WarningIssues(ingredient, warnings) ==
  IF warnings = <<>> THEN <<>>
  ELSE << Spread(Finding("FDA_INGREDIENT_WARNING", "WARNING", Head(warnings),
                         "FDA Food Data Central", "FDA-INGREDIENT"),
                 [ingredient |-> ingredient]) >>
       \o WarningIssues(ingredient, Tail(warnings))

IngredientIssues(vr) ==
  (IF ~(Has(vr, "fdaApproved") /\ vr.fdaApproved)
     THEN << Spread(Finding("FDA_INGREDIENT_NOT_APPROVED", "WARNING",
                            "Ingredient not found in FDA approved database",
                            "FDA Food Data Central", "FDA-INGREDIENT"),
                    [ingredient |-> vr.ingredient]) >>
     ELSE <<>>)
  \o (IF Has(vr, "warnings") THEN WarningIssues(vr.ingredient, vr.warnings) ELSE <<>>)

\* !validationResult.grasStatus: only a missing or empty status is falsy
IngredientRecommendations(vr) ==
  IF ~Has(vr, "grasStatus") \/ vr.grasStatus = ""
    THEN << Spread(Finding("FDA_GRAS_RECOMMENDATION", "INFO",
                           "Verify GRAS (Generally Recognized as Safe) status",
                           "FDA MCP Server", "FDA-GRAS"),
                   [ingredient |-> vr.ingredient]) >>
    ELSE <<>>

\* the concatenation of a list of lists, in order
RECURSIVE Flatten(_)
Flatten(lists) ==
  IF lists = <<>> THEN <<>> ELSE Head(lists) \o Flatten(Tail(lists))

\* the summary finding with the two counts of the payload's summary swapped
processFDAResult_SummaryFieldsSwapped(parsedResult) ==
  [ issues |->
      IF Has(parsedResult, "validationResults")
        THEN Flatten([ i \in DOMAIN parsedResult.validationResults |->
                        IngredientIssues(parsedResult.validationResults[i]) ]) ELSE <<>>,
    recommendations |->
      (IF Has(parsedResult, "validationResults")
         THEN Flatten([ i \in DOMAIN parsedResult.validationResults |->
                         IngredientRecommendations(parsedResult.validationResults[i]) ])
         ELSE <<>>)
      \o (IF Has(parsedResult, "summary")
            THEN << Spread(Finding("FDA_VALIDATION_SUMMARY", "INFO",
                                   "FDA validation completed", "FDA MCP Server",
                                   "FDA-INGREDIENT"),
                           [ approved |-> parsedResult.summary.warnings,
                             totalIngredients |-> parsedResult.summary.totalIngredients,
                             warnings |-> parsedResult.summary.approved ]) >>
            ELSE <<>>) ]

processFDAResult(parsedResult) ==
  [ issues |->
      IF Has(parsedResult, "validationResults")
        THEN Flatten([ i \in DOMAIN parsedResult.validationResults |->
                        IngredientIssues(parsedResult.validationResults[i]) ]) ELSE <<>>,
    recommendations |->
      (IF Has(parsedResult, "validationResults")
         THEN Flatten([ i \in DOMAIN parsedResult.validationResults |->
                         IngredientRecommendations(parsedResult.validationResults[i]) ])
         ELSE <<>>)
      \o (IF Has(parsedResult, "summary")
            THEN << Spread(Finding("FDA_VALIDATION_SUMMARY", "INFO",
                                   "FDA validation completed", "FDA MCP Server",
                                   "FDA-INGREDIENT"),
                           [ approved |-> parsedResult.summary.approved,
                             totalIngredients |-> parsedResult.summary.totalIngredients,
                             warnings |-> parsedResult.summary.warnings ]) >>
            ELSE <<>>) ]

\* result.content[0] of a resolved response, when the response has one
HasFirstContent(response) ==
  /\ Has(response, "result")
  /\ Has(response.result, "content")
  /\ response.result.content # <<>>

CountSeverity(issues, severity) ==
  Cardinality({ i \in DOMAIN issues : issues[i].severity = severity })

\* validateIngredientsWithFDA from the point where callFDAMCPTool settled
validateIngredientsWithFDA(data, settled) ==
  LET toValidate == ingredientsToValidate(data)
      processed ==
        IF settled.rejected
          THEN [ issues |-> << Finding("FDA_SERVICE_ERROR", "WARNING",
                     "FDA validation service temporarily unavailable - manual review recommended",
                     "FDA MCP Server", "FDA-INGREDIENT") >>,
                 recommendations |-> <<>> ]
        ELSE IF HasFirstContent(settled.value)
                  /\ settled.value.result.content[1].text.json
          THEN processFDAResult(settled.value.result.content[1].text.value)
        ELSE [ issues |-> <<>>, recommendations |-> <<>> ]
      issues ==
        processed.issues
        \o (IF Len(toValidate) = 0
              THEN << Finding("FDA_NO_INGREDIENTS", "WARNING",
                        "No ingredients detected - manual ingredient list review recommended",
                        "FDA Ingredient Database", "FDA-INGREDIENT") >>
              ELSE <<>>)
  IN  [ success |-> TRUE,
        fdaValidation |->
          [ ingredientsValidated |-> Len(toValidate),
            issues |-> issues,
            recommendations |-> processed.recommendations,
            summary |->
              [ totalIssues |-> Len(issues),
                complianceIssues |-> CountSeverity(issues, "COMPLIANCE"),
                warnings |-> CountSeverity(issues, "WARNING"),
                recommendations |-> Len(processed.recommendations),
                ingredientsValidated |-> Len(toValidate),
                message |-> IF settled.rejected
                              THEN "FDA validation completed with fallback data"
                              ELSE "FDA validation completed with real FDA API data" ] ] ]

(* ------------------ validateNutritionalClaimsWithFDA ------------------ *)

claimsOf(data) == IF Has(data, "claims") THEN data.claims ELSE <<>>

\* the early return for an empty claim list
NoClaimsResult ==
  [ success |-> TRUE,
    fdaClaimsValidation |->
      [ claimsValidated |-> 0,
        issues |-> <<>>,
        recommendations |-> << Finding("FDA_NO_CLAIMS", "INFO",
            "No nutritional claims detected - no FDA validation required",
            "FDA Claims Validation", "FDA-CLAIMS") >> ] ]

ClaimFinding(validation) ==
  Spread(Finding(IF validation.isValid THEN "FDA_VALID_CLAIM" ELSE "FDA_INVALID_CLAIM",
                 IF validation.isValid THEN "INFO" ELSE "COMPLIANCE",
                 validation.reason, validation.fdaSource, "FDA-CLAIMS"),
         [claim |-> validation.claim])

ClaimIssue(validation) ==
  IF validation.isValid THEN <<>> ELSE << ClaimFinding(validation) >>

ClaimRecommendation(validation) ==
  IF validation.isValid THEN << ClaimFinding(validation) >> ELSE <<>>

\* the catch block of validateNutritionalClaimsWithFDA
ClaimsErrorResult(message) ==
  [ success |-> FALSE,
    error |-> message,
    fdaClaimsValidation |->
      [ issues |-> << Finding("FDA_CLAIMS_ERROR", "ERROR", "FDA claims validation failed",
                              "FDA MCP Server", "FDA-ERROR") >> ] ]

\* validateNutritionalClaimsWithFDA from the point where callFDAMCPTool
\* settled; it reads claimsValidation.content?.[0]?.text of the response
validateNutritionalClaimsWithFDA(data, settled) ==
  IF settled.rejected THEN ClaimsErrorResult(settled.message)
  ELSE
    LET response == settled.value
        hasText == Has(response, "content") /\ response.content # <<>>
    IN  IF hasText /\ ~response.content[1].text.json
          THEN ClaimsErrorResult("Unexpected token")
        ELSE
          LET validations ==
                IF hasText /\ Has(response.content[1].text.value, "claimValidations")
                  THEN response.content[1].text.value.claimValidations ELSE <<>>
          IN  [ success |-> TRUE,
                fdaClaimsValidation |->
                  [ claimsValidated |-> Len(claimsOf(data)),
                    issues |-> Flatten([ i \in DOMAIN validations |-> ClaimIssue(validations[i]) ]),
                    recommendations |-> Flatten([ i \in DOMAIN validations |-> ClaimRecommendation(validations[i]) ]) ] ]

(* ----------------------- checkFoodAdditiveStatus ---------------------- *)

\* checkFoodAdditiveStatus from the point where callFDAMCPTool settled; it
\* reads additiveCheck.status and additiveCheck.cfr of the response
checkFoodAdditiveStatus(additive, settled) ==
  IF settled.rejected
    THEN [ success |-> FALSE, error |-> settled.message ]
    ELSE [ success |-> TRUE,
           additiveValidation |->
             Spread([ additive |-> additive,
                      status |-> IF Has(settled.value, "status")
                                   THEN settled.value.status ELSE "UNKNOWN" ],
                    IF Has(settled.value, "cfr")
                      THEN [cfr |-> settled.value.cfr] ELSE EmptyObject) ]

(* ------------------------------ actions ------------------------------- *)

IngredientDatas ==
  { [ingredients |-> l, extractedInformation |-> e] :
      l \in FdaIngredientLists,
      e \in { EmptyObject } \cup { [ingredients |-> x] : x \in IngredientLists } }

ClaimDatas == { [claims |-> c, nutritionalInfo |-> n] : c \in ClaimLists, n \in NutritionalInfos }

FdaIdle ==
  /\ fpc = "idle"
  /\ fcall = Null
  /\ child = "none"
  /\ spawns = 0
  /\ request = Null
  /\ lastClose = Null
  /\ fresult = Null

\* spawn('node', [mcpServerPath]) and the write of the request
Spawn(toolName, args) ==
  /\ child' = "running"
  /\ spawns' = spawns + 1
  /\ request' = McpRequest(toolName, args)
  /\ fpc' = "awaiting"
  /\ UNCHANGED << lastClose, fresult >>

\* validateIngredientsWithFDA is called: it reaches its await
FDA_ValidateIngredients ==
  /\ fpc = "idle"
  /\ \E data \in IngredientDatas :
       /\ fcall' = [entry |-> "validateIngredientsWithFDA", data |-> data]
       /\ Spawn("validate_ingredients", [ingredients |-> ingredientsToValidate(data)])
  /\ UNCHANGED << wfVars, gateVars, clientVars, healthVars, ovVars >>

\* validateNutritionalClaimsWithFDA is called: it returns at once for an
\* empty claim list, and reaches its await otherwise
FDA_ValidateClaims ==
  /\ fpc = "idle"
  /\ \E data \in ClaimDatas :
       /\ fcall' = [entry |-> "validateNutritionalClaimsWithFDA", data |-> data]
       /\ IF Len(claimsOf(data)) = 0
            THEN /\ fresult' = NoClaimsResult
                 /\ fpc' = "returned"
                 /\ UNCHANGED << child, spawns, request, lastClose >>
            ELSE Spawn("validate_nutritional_claims",
                       [claims |-> data.claims, nutritionalData |-> data.nutritionalInfo])
  /\ UNCHANGED << wfVars, gateVars, clientVars, healthVars, ovVars >>

\* checkFoodAdditiveStatus is called: it reaches its await
FDA_CheckAdditive ==
  /\ fpc = "idle"
  /\ \E additive \in Additives :
       /\ fcall' = [entry |-> "checkFoodAdditiveStatus", data |-> [additive |-> additive]]
       /\ Spawn("check_additive_status", [additive |-> additive])
  /\ UNCHANGED << wfVars, gateVars, clientVars, healthVars, ovVars >>

\* the child's 'close' event: the promise settles and the entry point runs
\* to its return
Child_Close ==
  /\ fpc = "awaiting" /\ child = "running"
  /\ \E close \in ChildCloses(request) :
       LET settled == callFDAMCPTool(close) IN
         /\ lastClose' = close
         /\ fresult' =
              IF fcall.entry = "validateIngredientsWithFDA"
                THEN validateIngredientsWithFDA(fcall.data, settled)
              ELSE IF fcall.entry = "validateNutritionalClaimsWithFDA"
                THEN validateNutritionalClaimsWithFDA(fcall.data, settled)
              ELSE checkFoodAdditiveStatus(fcall.data.additive, settled)
  /\ child' = "closed"
  /\ fpc' = "returned"
  /\ UNCHANGED << fcall, spawns, request >>
  /\ UNCHANGED << wfVars, gateVars, clientVars, healthVars, ovVars >>

\* the subprocess neither writes a response nor exits; callFDAMCPTool arms
\* no timer, so nothing is scheduled for this call any more
Child_Hangs ==
  /\ fpc = "awaiting" /\ child = "running"
  /\ child' = "hung"
  /\ UNCHANGED << fpc, fcall, spawns, request, lastClose, fresult >>
  /\ UNCHANGED << wfVars, gateVars, clientVars, healthVars, ovVars >>

InitFDA ==
  /\ labelData = [filename |-> "label.png", imageSource |-> "none"]
  /\ openai = FALSE
  /\ pc = "preprocess"
  /\ preprocessedData = Null
  /\ ocrResult = Null
  /\ qualityAssessment = Null
  /\ validationResult = Null
  /\ complianceResult = Null
  /\ finalResult = Null
  /\ thrown = Null
  /\ engine = "pending"
  /\ events = <<>>
  /\ aipc = "idle"
  /\ aiLog = <<>>
  /\ claudeError = Null
  /\ FdaIdle
  /\ GateIdle
  /\ ClientIdle
  /\ HealthIdle
  /\ OvIdle

NextFDA ==
  \/ FDA_ValidateIngredients
  \/ FDA_ValidateClaims
  \/ FDA_CheckAdditive
  \/ Child_Close
  \/ Child_Hangs

SpecFDA == InitFDA /\ [][NextFDA]_vars

\* the event loop delivers every event that is pending
FairSpecFDA == SpecFDA /\ WF_vars(NextFDA)

(* ================== the quality gate by itself (SpecGate) ============== *)

\* the objects performOCR can return for a payload with an image URL
ExtractionResults ==
  { performOCR([filename |-> "label.png", imageSource |-> "imageUrl"], o) :
      o \in EngineOutcomes }

\* return { ...assessment, assessedAt: new Date().toISOString() }
assessOCRQualityAt(ocr, now) == Spread(assessOCRQuality(ocr), [assessedAt |-> now])

\* entries of gateCalls: the argument as the call found it, and what the
\* call did
GateReturned(input, output) == [input |-> input, raised |-> FALSE, output |-> output]
GateRaised(input) == [input |-> input, raised |-> TRUE]

\* a call whose assessment object outlives the call: the issues and
\* recommendations of earlier calls stay in it
Gate_Call_SharedAssessment ==
  /\ gateInput # Null
  /\ Len(gateCalls) < MaxGateCalls
  /\ gateCalls' =
       Append(gateCalls,
         IF assessOCRQualityRaises(gateInput) THEN GateRaised(gateInput)
         ELSE LET fresh == assessOCRQualityAt(gateInput, clock)
                  kept  == IF gateCalls = <<>> THEN [issues |-> <<>>, recommendations |-> <<>>]
                           ELSE gateCalls[Len(gateCalls)].output
              IN  GateReturned(gateInput,
                    Spread(fresh,
                           [ issues |-> kept.issues \o fresh.issues,
                             recommendations |-> kept.recommendations
                                                   \o fresh.recommendations ])))
  /\ UNCHANGED << gateInput, clock >>
  /\ UNCHANGED << wfVars, fdaVars, clientVars, healthVars, ovVars >>

\* one call of assessOCRQuality(gateInput): the function builds a new
\* assessment object, reads its argument and never writes to it
Gate_Call ==
  /\ gateInput # Null
  /\ Len(gateCalls) < MaxGateCalls
  /\ gateCalls' =
       Append(gateCalls,
         IF assessOCRQualityRaises(gateInput) THEN GateRaised(gateInput)
         ELSE GateReturned(gateInput, assessOCRQualityAt(gateInput, clock)))
  /\ UNCHANGED << gateInput, clock >>
  /\ UNCHANGED << wfVars, fdaVars, clientVars, healthVars, ovVars >>

\* a millisecond passes
Clock_Tick ==
  /\ clock < MaxClock
  /\ clock' = clock + 1
  /\ UNCHANGED << gateInput, gateCalls >>
  /\ UNCHANGED << wfVars, fdaVars, clientVars, healthVars, ovVars >>

InitGate ==
  /\ labelData = [filename |-> "label.png", imageSource |-> "none"]
  /\ openai = FALSE
  /\ pc = "preprocess"
  /\ preprocessedData = Null
  /\ ocrResult = Null
  /\ qualityAssessment = Null
  /\ validationResult = Null
  /\ complianceResult = Null
  /\ finalResult = Null
  /\ thrown = Null
  /\ engine = "pending"
  /\ events = <<>>
  /\ aipc = "idle"
  /\ aiLog = <<>>
  /\ claudeError = Null
  /\ FdaIdle
  /\ ClientIdle
  /\ HealthIdle
  /\ OvIdle
  /\ gateInput \in ExtractionResults
  /\ gateCalls = <<>>
  /\ clock = 0

NextGate ==
  \/ Gate_Call
  \/ Clock_Tick

SpecGate == InitGate /\ [][NextGate]_vars

(* ======== runOCRValidationWorkflow called twice (SpecClient) ========== *)

\* the argument of runOCRValidationWorkflow
ImageDatas ==
  { [filename |-> "a.png", buffer |-> "A"],
    [filename |-> "b.png", buffer |-> "B"],
    [url |-> "http://labels/c.png"] }

\* what handle.result() can resolve with for a workflow input
WorkflowResults(workflowInput) ==
  { [filename |-> workflowInput.filename, status |-> st] :
      st \in {"APPROVED", "REQUIRES_REVIEW"} }

\* the object runOCRValidationWorkflow hands to workflow.start; the id is
\* drawn from the clock and Math.random, here the number of the call
WorkflowInput(r) ==
  [ workflowId |-> r,
    filename |-> IF Has(imageData[r], "filename")
                   THEN imageData[r].filename ELSE "uploaded-image",
    type |-> "product-label" ]

\* the catch block of runOCRValidationWorkflow
RunFailed(message) ==
  [success |-> FALSE, error |-> message, workflowId |-> Null, result |-> Null]

\* runOCRValidationWorkflow is called and runs into getTemporalClient:
\* with no client yet it awaits Connection.connect, otherwise it takes the
\* module's client and goes on to workflow.start
Run_Call(r) ==
  /\ runpc[r] = "idle"
  /\ \E d \in ImageDatas : imageData' = [imageData EXCEPT ![r] = d]
  /\ IF client = Null
       THEN /\ runpc' = [runpc EXCEPT ![r] = "connecting"]
            /\ UNCHANGED temporalClient
       ELSE /\ runpc' = [runpc EXCEPT ![r] = "starting"]
            /\ temporalClient' = [temporalClient EXCEPT ![r] = client]
  /\ UNCHANGED << client, clientsCreated, runResult >>
  /\ UNCHANGED << wfVars, fdaVars, gateVars, healthVars, ovVars >>

\* Connection.connect settles for a call that found no client: resolved, the
\* call assigns a new Client to the module's variable and returns it;
\* rejected, the error reaches the catch of runOCRValidationWorkflow
Connect_Settles(r) ==
  /\ runpc[r] = "connecting"
  /\ \/ /\ clientsCreated' = clientsCreated + 1
        /\ client' = [created |-> clientsCreated + 1]
        /\ temporalClient' = [temporalClient EXCEPT ![r] = client']
        /\ runpc' = [runpc EXCEPT ![r] = "starting"]
        /\ UNCHANGED runResult
     \/ /\ runResult' = [runResult EXCEPT ![r] = RunFailed("connect failed")]
        /\ runpc' = [runpc EXCEPT ![r] = "returned"]
        /\ UNCHANGED << client, clientsCreated, temporalClient >>
  /\ UNCHANGED imageData
  /\ UNCHANGED << wfVars, fdaVars, gateVars, healthVars, ovVars >>

\* temporalClient.workflow.start settles
Start_Settles(r) ==
  /\ runpc[r] = "starting"
  /\ \/ /\ runpc' = [runpc EXCEPT ![r] = "running"]
        /\ UNCHANGED runResult
     \/ /\ runResult' = [runResult EXCEPT ![r] = RunFailed("start failed")]
        /\ runpc' = [runpc EXCEPT ![r] = "returned"]
  /\ UNCHANGED << client, clientsCreated, temporalClient, imageData >>
  /\ UNCHANGED << wfVars, fdaVars, gateVars, healthVars, ovVars >>

\* handle.result() settles and runOCRValidationWorkflow returns
Result_Settles(r) ==
  /\ runpc[r] = "running"
  /\ \/ \E result \in WorkflowResults(WorkflowInput(r)) :
          runResult' = [runResult EXCEPT ![r] =
            [success |-> TRUE, workflowId |-> WorkflowInput(r).workflowId,
             result |-> result]]
     \/ runResult' = [runResult EXCEPT ![r] = RunFailed("workflow failed")]
  /\ runpc' = [runpc EXCEPT ![r] = "returned"]
  /\ UNCHANGED << client, clientsCreated, temporalClient, imageData >>
  /\ UNCHANGED << wfVars, fdaVars, gateVars, healthVars, ovVars >>

WorkflowParked ==
  /\ labelData = [filename |-> "label.png", imageSource |-> "none"]
  /\ openai = FALSE
  /\ pc = "preprocess"
  /\ preprocessedData = Null
  /\ ocrResult = Null
  /\ qualityAssessment = Null
  /\ validationResult = Null
  /\ complianceResult = Null
  /\ finalResult = Null
  /\ thrown = Null
  /\ engine = "pending"
  /\ events = <<>>
  /\ aipc = "idle"
  /\ aiLog = <<>>
  /\ claudeError = Null

InitClient ==
  /\ WorkflowParked
  /\ FdaIdle
  /\ GateIdle
  /\ ClientIdle
  /\ HealthIdle
  /\ OvIdle

NextClient ==
  \/ \E r \in Runs : Run_Call(r)
  \/ \E r \in Runs : Connect_Settles(r)
  \/ \E r \in Runs : Start_Settles(r)
  \/ \E r \in Runs : Result_Settles(r)

SpecClient == InitClient /\ [][NextClient]_vars

(* ============== POST /test-mcp-health (SpecHealth) ==================== *)

SubprocessTests == {"health", "allergen_check", "nutritional_claims"}

\* req.body: the test type, and whether testIngredients / testClaims came
\* with it
HealthBodies ==
  [ testType : SubprocessTests \cup {"fda_api", "ingredient_validation", "unknown"},
    testIngredients : BOOLEAN,
    testClaims : BOOLEAN ]

\* what the child can have written to stdout for the request of a test:
\* the server's answer to it, or a JSON-RPC error
Answers(testType) ==
  { IF testType = "health" THEN "{result:{tools:[...]}}"
    ELSE IF testType = "allergen_check" THEN "{result:{content:[{text:{allergenFindings...}}]}}"
    ELSE "{result:{content:[{text:{claimValidations...}}]}}",
    "{error:{code:-32603}}" }

\* responseData.includes(word)
Includes(data, word) ==
  \/ data = "{result:{tools:[...]}}" /\ word = "tools"
  \/ data = "{result:{content:[{text:{allergenFindings...}}]}}" /\ word = "allergen"

\* the body the close handler of a test passes to res.json
CloseBody(testType, code, data) ==
  IF testType = "health"
    THEN IF code = 0 \/ Includes(data, "tools")
           THEN [success |-> TRUE, message |-> "MCP server can spawn and respond"]
           ELSE [success |-> FALSE, message |-> "MCP server failed to start properly"]
  ELSE IF testType = "allergen_check"
    THEN IF Includes(data, "allergen") \/ Includes(data, "requirements")
           THEN [success |-> TRUE, message |-> "Allergen checking functional"]
           ELSE [success |-> FALSE, message |-> "Allergen checking returned unexpected response"]
  ELSE IF Includes(data, "claims") \/ Includes(data, "validation")
           THEN [success |-> TRUE, message |-> "Nutritional claims validation working"]
           ELSE [success |-> FALSE, message |-> "Claims validation returned unexpected response"]

\* the body the catch around res.json in the close handlers of
\* allergen_check and nutritional_claims passes to res.json
CloseCatchBody(testType) ==
  [ success |-> FALSE,
    message |-> IF testType = "allergen_check"
                  THEN "Allergen check parse error: Cannot set headers after they are sent to the client"
                  ELSE "Claims validation parse error: Cannot set headers after they are sent to the client" ]

\* the body the timer callback of a test passes to res.json
TimeoutBody(testType) ==
  [ success |-> FALSE,
    message |-> IF testType = "health" THEN "MCP server health check timeout"
                ELSE IF testType = "allergen_check" THEN "Allergen check timeout"
                ELSE "Claims validation timeout" ]

\* res.json(body) called from the handler of event `by`, after the calls in
\* `calls`: the first call writes the response, a later one raises
\* ERR_HTTP_HEADERS_SENT and writes nothing
ResJson(calls, by, status, body) ==
  Append(calls, [ by |-> by, status |-> status, body |-> body,
                  outcome |-> IF calls = <<>> THEN "sent" ELSE "ERR_HTTP_HEADERS_SENT" ])

\* the responses that went out, given the calls of res.json
Written(calls) ==
  LET idx == { i \in DOMAIN calls : calls[i].outcome = "sent" } IN
    [ k \in 1..Cardinality(idx) |->
        calls[CHOOSE i \in idx : Cardinality({ j \in idx : j <= i }) = k] ]

\* the request arrives and the handler runs to the end of its switch case,
\* or to its await
Health_Request ==
  /\ hpc = "idle"
  /\ \E body \in HealthBodies, keySet \in BOOLEAN :
       /\ hbody' = body
       /\ IF body.testType \in SubprocessTests
            THEN /\ hchild' = "running"
                 /\ hpc' = "racing"
                 /\ UNCHANGED resCalls
          ELSE IF body.testType = "fda_api" /\ ~keySet
            THEN /\ resCalls' = ResJson(resCalls, "handler", 200,
                       [success |-> FALSE,
                        message |-> "FDA_API_KEY environment variable not set"])
                 /\ hpc' = "done"
                 /\ UNCHANGED hchild
          ELSE IF body.testType \in {"fda_api", "ingredient_validation"}
            THEN /\ hpc' = "awaiting"
                 /\ UNCHANGED << hchild, resCalls >>
          ELSE /\ resCalls' = ResJson(resCalls, "handler", 400,
                       [success |-> FALSE, message |-> "Unknown test type"])
               /\ hpc' = "done"
               /\ UNCHANGED hchild
  /\ sent' = Written(resCalls')
  /\ UNCHANGED << responseData, hevents >>
  /\ UNCHANGED << wfVars, fdaVars, gateVars, clientVars, ovVars >>

\* the awaited fetch / validateIngredientsWithFDA of the two tests without
\* a subprocess of their own settles, and the handler answers
Health_AwaitSettles ==
  /\ hpc = "awaiting"
  /\ \E message \in
         IF hbody.testType = "fda_api"
           THEN { "FDA API connection successful", "FDA API returned",
                  "FDA API connection error" }
           ELSE { "Validated ingredients successfully", "Ingredient validation error" } :
       resCalls' = ResJson(resCalls, "handler", 200,
                     [ success |-> message \in { "FDA API connection successful",
                                                 "Validated ingredients successfully" },
                       message |-> message ])
  /\ sent' = Written(resCalls')
  /\ hpc' = "done"
  /\ UNCHANGED << hbody, hchild, responseData, hevents >>
  /\ UNCHANGED << wfVars, fdaVars, gateVars, clientVars, ovVars >>

\* child.stdout 'data': the child's output is appended to responseData
Health_ChildStdout ==
  /\ hpc = "racing" /\ hchild = "running" /\ responseData = ""
  /\ responseData' \in Answers(hbody.testType)
  /\ UNCHANGED << hpc, hbody, hchild, hevents, resCalls, sent >>
  /\ UNCHANGED << wfVars, fdaVars, gateVars, clientVars, ovVars >>

\* child 'close': the child exited by itself (code 0 or 1) or was killed by
\* the timer (code null, here -1); the close handler calls res.json, and in
\* allergen_check and nutritional_claims an error raised by that call is
\* caught and answered with a second call
Health_ChildClose ==
  /\ hpc = "racing" /\ hchild \in {"running", "killed"}
  /\ \E code \in IF hchild = "killed" THEN {-1} ELSE {0, 1} :
       LET first == ResJson(resCalls, "close", 200,
                            CloseBody(hbody.testType, code, responseData))
       IN  resCalls' =
             IF resCalls # <<>> /\ hbody.testType # "health"
               THEN ResJson(first, "close", 200, CloseCatchBody(hbody.testType))
               ELSE first
  /\ sent' = Written(resCalls')
  /\ hchild' = "closed"
  /\ hevents' = Append(hevents, "close")
  /\ UNCHANGED << hpc, hbody, responseData >>
  /\ UNCHANGED << wfVars, fdaVars, gateVars, clientVars, ovVars >>

\* the 5-second timer, which nothing clears: child.kill() and res.json
Health_Timer ==
  /\ hpc = "racing" /\ "timer" \notin Range(hevents)
  /\ hchild' = IF hchild = "running" THEN "killed" ELSE hchild
  /\ resCalls' = ResJson(resCalls, "timer", 200, TimeoutBody(hbody.testType))
  /\ sent' = Written(resCalls')
  /\ hevents' = Append(hevents, "timer")
  /\ UNCHANGED << hpc, hbody, responseData >>
  /\ UNCHANGED << wfVars, fdaVars, gateVars, clientVars, ovVars >>

InitHealth ==
  /\ WorkflowParked
  /\ FdaIdle
  /\ GateIdle
  /\ ClientIdle
  /\ HealthIdle
  /\ OvIdle

NextHealth ==
  \/ Health_Request
  \/ Health_AwaitSettles
  \/ Health_ChildStdout
  \/ Health_ChildClose
  \/ Health_Timer

SpecHealth == InitHealth /\ [][NextHealth]_vars

(* ================ POST /ocr-validate (SpecOcrValidate) ================ *)

\* req.file as multer's memory storage leaves it
Files ==
  { [originalname |-> n, buffer |-> "bytes"] : n \in {"label.png", "label.jpg"} }

\* runSimpleOCR: performOCR on the buffer, wrapped; performOCR turns an
\* engine failure into its failure record, so the catch is not reached
runSimpleOCR(imgData, outcome) ==
  [ success |-> TRUE,
    ocrResult |-> performOCR([filename |-> imgData.filename, imageSource |-> "imageBuffer"],
                             outcome) ]

\* ocrResult.confidence > 0.8 ? 'good' : ocrResult.confidence > 0.6 ? 'fair' : 'poor'
SimpleQuality(ocr) ==
  IF Has(ocr, "confidence") /\ ocr.confidence > 80 THEN "good"
  ELSE IF Has(ocr, "confidence") /\ ocr.confidence > 60 THEN "fair"
  ELSE "poor"

\* the records performAIValidation can return for the ocrResult that
\* runSimpleAIValidation hands it
AIValidationRecords(ocr) ==
  LET quality == [overall |-> SimpleQuality(ocr), confidence |-> ocr.confidence] IN
    { AIResult(parseAIResponse(t, ocr.text), ocr.text, m, quality) :
        t \in AiTexts, m \in {ClaudeModel, OpenAIModel} }
      \cup { AIResult(ClaudeOnlyStub(ocr.text, "API error"), ocr.text, ClaudeModel, quality),
             AIResult(BothFailedStub(ocr.text, "API error", "API error"), ocr.text,
                      OpenAIModel, quality) }

\* the argument of validateIngredientsWithFDA in Step 3
FdaArgument(validation) ==
  [ ingredients |-> IF Has(validation.extractedInformation, "ingredients")
                      THEN validation.extractedInformation.ingredients ELSE <<>>,
    extractedInformation |-> validation.extractedInformation ]

\* the keys of obj among keys
Pick(obj, keys) == [k \in (DOMAIN obj) \cap keys |-> obj[k]]

\* "Prepare response"
OcrValidateResponse(f, ocr, ai, fda) ==
  [ status |-> 200,
    body |->
      [ success |-> TRUE,
        filename |-> f.originalname,
        ocr |-> Spread(Pick(ocr, {"text", "confidence", "totalWords", "detectedSections"}),
                       [ qualityAssessment |->
                           [ overall |-> SimpleQuality(ocr),
                             issues |-> <<>>, recommendations |-> <<>> ] ]),
        aiValidation |->
          IF ai # Null
            THEN Pick(ai, {"isValid", "confidence", "correctedText", "extractedInformation",
                           "ocrIssuesFound", "completenessScore", "complianceIssues",
                           "recommendations", "qualityImprovement"})
            ELSE [ error |-> "AI validation not performed - no text extracted",
                   isValid |-> FALSE ],
        fdaValidation |->
          IF fda # Null THEN fda
          ELSE [ issues |-> <<>>, recommendations |-> <<>>,
                 summary |-> [ message |->
                   "FDA validation not performed - no ingredients extracted" ] ] ] ]

\* the request arrives: without a file it is answered at once, otherwise
\* the handler awaits runSimpleOCR
OV_Request ==
  /\ ovpc = "idle"
  /\ \/ /\ ovResponse' = [status |-> 400, body |-> [error |-> "No file provided"]]
        /\ ovpc' = "responded"
        /\ UNCHANGED << file, invoked >>
     \/ /\ file' \in Files
        /\ invoked' = <<"runSimpleOCR">>
        /\ ovpc' = "ocr"
        /\ UNCHANGED ovResponse
  /\ UNCHANGED << ocrResponse, aiValidation, fdaValidation >>
  /\ UNCHANGED << wfVars, fdaVars, gateVars, clientVars, healthVars >>

\* runSimpleOCR settles; the handler answers 500 for success = false, goes
\* on to the AI validation when text was extracted, and otherwise prepares
\* its response with both later steps skipped
OV_OCRSettles ==
  /\ ovpc = "ocr"
  /\ \E outcome \in EngineOutcomes :
       LET response == runSimpleOCR([filename |-> file.originalname, buffer |-> file.buffer],
                                    outcome)
       IN
       /\ ocrResponse' = response
       /\ IF ~response.success
            THEN /\ ovResponse' = [ status |-> 500,
                                    body |-> [ error |-> "OCR processing failed",
                                               details |-> response.error ] ]
                 /\ ovpc' = "responded"
                 /\ UNCHANGED invoked
          ELSE IF TruthyText(response.ocrResult)
            THEN /\ invoked' = Append(invoked, "runSimpleAIValidation")
                 /\ ovpc' = "ai"
                 /\ UNCHANGED ovResponse
          ELSE /\ ovResponse' = OcrValidateResponse(file, response.ocrResult, Null, Null)
               /\ ovpc' = "responded"
               /\ UNCHANGED invoked
  /\ UNCHANGED << file, aiValidation, fdaValidation >>
  /\ UNCHANGED << wfVars, fdaVars, gateVars, clientVars, healthVars >>

\* runSimpleAIValidation settles; with extractedInformation in the record
\* the handler awaits validateIngredientsWithFDA, otherwise it responds
OV_AISettles ==
  /\ ovpc = "ai"
  /\ \E record \in AIValidationRecords(ocrResponse.ocrResult) :
       /\ aiValidation' = record
       /\ IF Has(record, "extractedInformation")
            THEN /\ invoked' = Append(invoked, "validateIngredientsWithFDA")
                 /\ ovpc' = "fda"
                 /\ UNCHANGED ovResponse
            ELSE /\ ovResponse' = OcrValidateResponse(file, ocrResponse.ocrResult, record, Null)
                 /\ ovpc' = "responded"
                 /\ UNCHANGED invoked
  /\ UNCHANGED << file, ocrResponse, fdaValidation >>
  /\ UNCHANGED << wfVars, fdaVars, gateVars, clientVars, healthVars >>

\* validateIngredientsWithFDA settles and the handler responds
OV_FDASettles ==
  /\ ovpc = "fda"
  /\ LET data == FdaArgument(aiValidation)
         req  == McpRequest("validate_ingredients",
                            [ingredients |-> ingredientsToValidate(data)])
     IN \E close \in ChildCloses(req) :
          LET fdaResponse == validateIngredientsWithFDA(data, callFDAMCPTool(close)) IN
            /\ fdaValidation' = fdaResponse.fdaValidation
            /\ ovResponse' = OcrValidateResponse(file, ocrResponse.ocrResult, aiValidation,
                                                 fdaResponse.fdaValidation)
  /\ ovpc' = "responded"
  /\ UNCHANGED << file, ocrResponse, aiValidation, invoked >>
  /\ UNCHANGED << wfVars, fdaVars, gateVars, clientVars, healthVars >>

InitOcrValidate ==
  /\ WorkflowParked
  /\ FdaIdle
  /\ GateIdle
  /\ ClientIdle
  /\ HealthIdle
  /\ OvIdle

NextOcrValidate ==
  \/ OV_Request
  \/ OV_OCRSettles
  \/ OV_AISettles
  \/ OV_FDASettles

SpecOcrValidate == InitOcrValidate /\ [][NextOcrValidate]_vars

(* ====================== properties of the workflow ==================== *)

\* The issues the stages of a run have reported, each with the severity of
\* the list the stage files it under: the quality gate's issues and the
\* compliance check's warnings are warnings, the AI stage's complianceIssues
\* and the compliance check's violations are compliance findings.
IssuesOf(obj, key) == IF Has(obj, key) THEN Range(obj[key]) ELSE {}

StageFindings ==
  { [severity |-> "WARNING", message |-> m] :
      m \in IssuesOf(qualityAssessment, "issues") \cup IssuesOf(complianceResult, "warnings") }
  \cup
  { [severity |-> "COMPLIANCE", message |-> m] :
      m \in IssuesOf(validationResult, "complianceIssues")
              \cup IssuesOf(complianceResult, "violations") }

\* C1: for every completed run, the verdict's status is REQUIRES_REVIEW if
\* some Finding of some stage has severity COMPLIANCE or ERROR, and APPROVED
\* otherwise.
VerdictFollowsFindings ==
  pc = "done" =>
    IF \E f \in StageFindings : f.severity \in {"COMPLIANCE", "ERROR"}
      THEN finalResult.status = "REQUIRES_REVIEW"
      ELSE finalResult.status = "APPROVED"

\* C2: whatever the stages' outcomes, the run ends by returning a verdict;
\* the workflow never ends by throwing to its host.
WorkflowNeverThrows ==
  /\ pc # "failed"
  /\ thrown = Null

\* The stages of a run in their order: Extraction, Quality Gate,
\* AI Correction/Extraction, Regulatory Cross-Check, Aggregator.
Stages ==
  << "performOCR", "assessOCRQuality", "performAIValidation",
     "performComplianceCheck", "finalResult" >>

InvokedAt(stage)  == { i \in DOMAIN events : events[i] = Invoke(stage) }
ReturnedAt(stage) == { i \in DOMAIN events : events[i] = Return(stage) }

ExtractedIngredients(validation) ==
  IF Has(validation, "extractedInformation")
       /\ Has(validation.extractedInformation, "ingredients")
    THEN validation.extractedInformation.ingredients
    ELSE <<>>

SettledOf(provider) ==
  { aiLog[i].outcome : i \in { j \in DOMAIN aiLog :
      aiLog[j].kind = "settled" /\ aiLog[j].provider = provider } }

RequestsTo(provider) ==
  { i \in DOMAIN aiLog : aiLog[i].kind = "request" /\ aiLog[i].provider = provider }

Threw(provider) == \E o \in SettledOf(provider) : o.threw

\* the completion parses to an object carrying the mandatory keys
ParsesToFullObject(text) ==
  LET parsed == parseAIResponse(text, "") IN
    /\ parsed # ParseStub("")
    /\ {"isValid", "confidence", "correctedText", "extractedInformation"} \subseteq DOMAIN parsed

Unparsable(text) == parseAIResponse(text, "") = ParseStub("")

Succeeded(provider) ==
  \E o \in SettledOf(provider) : ~o.threw /\ ParsesToFullObject(o.text)

\* C7: the record performAIValidation returns names its provider: primary
\* success gives aiProvider = the primary and success = true; primary
\* throws and secondary succeeds gives aiProvider = "secondary" and
\* success = true.
ProviderIdentified ==
  aipc = "done" =>
    /\ Succeeded("anthropic") =>
         /\ Has(validationResult, "aiProvider")
         /\ validationResult.aiProvider \in {"primary", "anthropic"}
         /\ Has(validationResult, "success") /\ validationResult.success = TRUE
    /\ (Threw("anthropic") /\ Succeeded("openai")) =>
         /\ Has(validationResult, "aiProvider")
         /\ validationResult.aiProvider = "secondary"
         /\ Has(validationResult, "success") /\ validationResult.success = TRUE

\* C8: primary throws and the secondary throws or is not configured: the
\* degraded stub has aiProvider = "none", isValid = false, a confidence
\* within 0.3..0.4 and an error string for each of the two providers.
DegradedStubReturned ==
  (aipc = "done" /\ Threw("anthropic") /\ (Threw("openai") \/ ~openai)) =>
    /\ Has(validationResult, "aiProvider") /\ validationResult.aiProvider = "none"
    /\ validationResult.isValid = FALSE
    /\ validationResult.confidence \in 30..40
    /\ Has(validationResult, "errors")
    /\ {"claude", "openai"} \subseteq DOMAIN validationResult.errors

\* C9: the primary's completion cannot be parsed: no further provider call
\* is made and the result has success = false and a fallbackValidation stub
\* with isValid = false and a confidence within 0.4..0.7.
ParseFailureStub ==
  (aipc = "done" /\ \E o \in SettledOf("anthropic") : ~o.threw /\ Unparsable(o.text)) =>
    /\ Cardinality(RequestsTo("anthropic")) = 1
    /\ RequestsTo("openai") = {}
    /\ Has(validationResult, "success") /\ validationResult.success = FALSE
    /\ Has(validationResult, "fallbackValidation")
    /\ validationResult.fallbackValidation.isValid = FALSE
    /\ validationResult.fallbackValidation.confidence \in 40..70

MandatoryKeys == {"isValid", "confidence", "correctedText", "extractedInformation"}

\* the completion parses to a JSON object that lacks a mandatory key
ParsesToSparseObject(text) ==
  LET parsed == parseAIResponse(text, "") IN
    /\ parsed # ParseStub("")
    /\ ~(MandatoryKeys \subseteq DOMAIN parsed)

\* the completions the run handed to parseAIResponse
ParsedCompletions ==
  { o \in SettledOf("anthropic") \cup SettledOf("openai") : ~o.threw }

\* C11: a provider response that parses to a JSON object missing one of
\* isValid, confidence, correctedText, extractedInformation is treated as a
\* parse failure: the result has success = false and a fallbackValidation
\* stub, and the sparse object is not passed through.
SparseObjectIsParseFailure ==
  (aipc = "done" /\ \E o \in ParsedCompletions : ParsesToSparseObject(o.text)) =>
    /\ Has(validationResult, "success") /\ validationResult.success = FALSE
    /\ Has(validationResult, "fallbackValidation")
    /\ ~Has(validationResult, "someOtherField")

\* the last provider call of the finished validation, when its completion
\* was handed to parseAIResponse
LastSettled == aiLog[Len(aiLog)]
CompletionParsed ==
  /\ aipc = "done" /\ aiLog # <<>>
  /\ LastSettled.kind = "settled" /\ ~LastSettled.outcome.threw

ModelOf(provider) == IF provider = "anthropic" THEN ClaudeModel ELSE OpenAIModel

\* performAIValidation returned what parseAIResponse made of obj / the stub
ReturnedFrom(obj) ==
  validationResult = AIResult(obj, ocrResult.text, ModelOf(LastSettled.provider),
                              qualityAssessment)
ReturnedStub == ReturnedFrom(ParseStub(ocrResult.text))

Strategies == << "fence", "brace", "whole" >>

\* the first of the three strategies that yields a parsed object; 0 if none
FirstParsed(text) ==
  IF \E i \in 1..3 : text[Strategies[i]].m = "json"
    THEN CHOOSE i \in 1..3 :
           /\ text[Strategies[i]].m = "json"
           /\ \A j \in 1..(i - 1) : text[Strategies[j]].m # "json"
    ELSE 0

\* the first of the two patterns that matches; the whole body otherwise
FirstMatched(text) ==
  IF text.fence.m # "none" THEN 1 ELSE IF text.brace.m # "none" THEN 2 ELSE 3

\* C24 (as stated): the three strategies are tried in order, moving on
\* whenever the earlier one yields no parsed object, and the stub is returned
\* only when all three fail.
ParseStrategiesFallThrough ==
  CompletionParsed =>
    LET text == LastSettled.outcome.text
        i    == FirstParsed(text) IN
      IF i = 0 THEN ReturnedStub ELSE ReturnedFrom(text[Strategies[i]].obj)

\* C24 (amended): the three strategies are tried in order, moving on whenever
\* the earlier one's pattern finds no match; the text of the first strategy
\* that matches (the whole body when neither pattern matches) is parsed, and
\* the stub is returned when that one parse fails.
ParseStrategiesByMatch ==
  CompletionParsed =>
    LET text   == LastSettled.outcome.text
        chosen == text[Strategies[FirstMatched(text)]] IN
      IF chosen.m = "json" THEN ReturnedFrom(chosen.obj) ELSE ReturnedStub

\* a fenced block that does not parse next to an object the brace scan would
\* find: the stub is returned
FenceRejectedBraceParsable ==
  /\ CompletionParsed
  /\ LastSettled.outcome.text.fence.m = "bad"
  /\ LastSettled.outcome.text.brace.m = "json"
  /\ ReturnedStub

\* C12: performAIValidation never raises, and whichever way the provider
\* calls settle, the record it returns contains isValid, confidence and
\* correctedText.
AIValidationReturnsRecord ==
  /\ \A i \in DOMAIN events : events[i] # Raise("performAIValidation")
  /\ aipc = "done" =>
       {"isValid", "confidence", "correctedText"} \subseteq DOMAIN validationResult

\* C13: performOCR never raises; when the recognition engine fails, or the
\* payload names no image source, it returns success = false, the error
\* message, text = "" and confidence = 0.
OCRFailureResult ==
  /\ \A i \in DOMAIN events : events[i] # Raise("performOCR")
  /\ engine \in {"not called", "rejected"} =>
       /\ Has(ocrResult, "success") /\ ocrResult.success = FALSE
       /\ Has(ocrResult, "error")
       /\ Has(ocrResult, "text") /\ ocrResult.text = ""
       /\ Has(ocrResult, "confidence") /\ ocrResult.confidence = 0

\* C14: the quality gate never blocks the run: for every result of the
\* extraction stage, the failure result included, assessOCRQuality returns
\* an assessment without raising and the run goes on to the AI stage.
QualityGateNeverBlocks ==
  /\ \A i \in DOMAIN events : events[i] # Raise("assessOCRQuality")
  /\ (InvokedAt("assessOCRQuality") # {}) =>
       /\ qualityAssessment # Null
       /\ pc \in {"ai", "compliance", "final", "done"}

\* C15: in the final verdict the completion flag of the extraction, of the
\* AI validation and of the compliance check is true exactly when the stage
\* was run, whatever the stage returned.
FlagsRecordStagesRun ==
  pc = "done" =>
    /\ finalResult.processingSteps.ocrCompleted = (InvokedAt("performOCR") # {})
    /\ finalResult.processingSteps.aiValidated = (InvokedAt("performAIValidation") # {})
    /\ finalResult.processingSteps.complianceChecked
         = (InvokedAt("performComplianceCheck") # {})

\* the quality gate has assessed the extraction result of the run
Assessed == qualityAssessment # Null

HighConfidenceIsExcellent ==
  (/\ Assessed
   /\ ocrResult.confidence >= 85
   /\ ocrResult.totalWords > 0
   /\ ocrResult.lowConfidenceWords * 10 < ocrResult.totalWords) =>
    /\ qualityAssessment.overall = "excellent"
    /\ Len(ocrResult.text) >= 50 =>
         /\ qualityAssessment.issues = <<>>
         /\ qualityAssessment.recommendations = <<>>

\* C18: an extraction result whose text has fewer than 50 characters, the
\* empty text included, is assessed poor whatever its confidence, and the
\* issues name the short (or missing) text.
ShortTextIsPoor ==
  (Assessed /\ Len(ocrResult.text) < 50) =>
    /\ qualityAssessment.overall = "poor"
    /\ {"Very short text extracted", "No text detected"}
         \cap Range(qualityAssessment.issues) # {}


(* ================ properties of the regulatory entry points ============ *)

\* every Finding a returned value carries
ResultFindings(result) ==
  LET body ==
        IF Has(result, "fdaValidation") THEN result.fdaValidation
        ELSE IF Has(result, "fdaClaimsValidation") THEN result.fdaClaimsValidation
        ELSE EmptyObject
  IN  IssuesOf(body, "issues") \cup IssuesOf(body, "recommendations")

IngredientCallWithEmptyList ==
  /\ fcall # Null
  /\ fcall.entry = "validateIngredientsWithFDA"
  /\ ingredientsToValidate(fcall.data) = <<>>

\* C4: with an empty list to validate, validateIngredientsWithFDA spawns no
\* subprocess and its result carries an INFO Finding saying that there are
\* no ingredients to validate.
EmptyListSkipsCapability ==
  IngredientCallWithEmptyList =>
    /\ spawns = 0
    /\ fpc = "returned" =>
         \E f \in ResultFindings(fresult) :
           f.severity = "INFO" /\ f.type = "FDA_NO_INGREDIENTS"

\* C5: a regulatory call whose subprocess never responds still returns:
\* the subprocess is killed after the timeout and the result carries a
\* WARNING Finding of a service-unavailable type.
HungCallReturns ==
  (fcall # Null /\ fcall.entry = "validateIngredientsWithFDA" /\ child = "hung")
    ~> (/\ fpc = "returned"
        /\ child = "killed"
        /\ \E f \in ResultFindings(fresult) :
             f.severity = "WARNING" /\ f.type = "FDA_SERVICE_ERROR")

\* C6: for each of the three entry points, a non-zero exit code or an
\* unparsable final stdout line gives a returned value with a WARNING
\* Finding, and neither an ERROR Finding nor a failure result.
SubprocessFailureIsWarning ==
  (fpc = "returned" /\ lastClose # Null
     /\ (lastClose.code # 0 \/ ~lastClose.line.parsable)) =>
    /\ \E f \in ResultFindings(fresult) : f.severity = "WARNING"
    /\ \A f \in ResultFindings(fresult) : f.severity # "ERROR"
    /\ fresult.success = TRUE

\* the subprocess exited with code 0 and its last line carries the
\* payload the tool computed
CapabilityResponded ==
  /\ lastClose # Null
  /\ lastClose.code = 0
  /\ lastClose.line.parsable
  /\ HasFirstContent(lastClose.line.json)
  /\ lastClose.line.json.result.content[1].text.json

ToolPayload == lastClose.line.json.result.content[1].text.value

SafeIngredientsValidated ==
  /\ fpc = "returned"
  /\ fcall.entry = "validateIngredientsWithFDA"
  /\ Range(ingredientsToValidate(fcall.data)) \subseteq KnownGRAS
  /\ CapabilityResponded

NoComplianceAndAllApproved ==
  /\ \A f \in ResultFindings(fresult) : f.severity # "COMPLIANCE"
  /\ \E f \in ResultFindings(fresult) :
       /\ f.type = "FDA_VALIDATION_SUMMARY"
       /\ f.approved = Len(ingredientsToValidate(fcall.data))

FindingsWith(list, field) == { f \in Range(list) : Has(f, field) }

ClaimsCallAnswered ==
  /\ fpc = "returned"
  /\ fcall.entry = "validateNutritionalClaimsWithFDA"
  /\ claimsOf(fcall.data) # <<>>
  /\ CapabilityResponded

\* C21: for every claim of a non-empty list passed to
\* validateNutritionalClaimsWithFDA, when the payload at
\* result.content[0].text reports the claim invalid the returned issues hold
\* a COMPLIANCE finding for it, and when it reports the claim valid the
\* returned recommendations hold an INFO finding for it.
ClaimVerdictsBecomeFindings ==
  ClaimsCallAnswered =>
    \A i \in DOMAIN ToolPayload.claimValidations :
      LET v == ToolPayload.claimValidations[i]
          body == fresult.fdaClaimsValidation
      IN  IF v.isValid
            THEN /\ Has(body, "recommendations")
                 /\ \E f \in FindingsWith(body.recommendations, "claim") :
                      f.severity = "INFO" /\ f.claim = v.claim
            ELSE \E f \in FindingsWith(body.issues, "claim") :
                   f.severity = "COMPLIANCE" /\ f.claim = v.claim

\* what the server's tool-call handler answers to a request: the payload the
\* tool computed, or the text "Error: ..." when the tool raised
HandlerAnswers(req) ==
  { JsonText(pl) : pl \in ToolPayloads(req) }
    \cup (IF req.name = "validate_nutritional_claims"
               /\ validateNutritionalClaimsRaises(req.arguments.claims,
                                                  req.arguments.nutritionalData)
            THEN { ErrorText } ELSE {})

\* the server answered the claims request written to its stdin
ClaimsToolAnswered ==
  /\ request # Null
  /\ request.name = "validate_nutritional_claims"
  /\ lastClose # Null
  /\ lastClose.code = 0
  /\ lastClose.line.parsable
  /\ lastClose.line.json \in { Envelope(<<c>>) : c \in HandlerAnswers(request) }

AnswerText == lastClose.line.json.result.content[1].text

\* the claims of the request that are a given claim, with the nutrient given
Asked(claim, nutrient) ==
  { i \in DOMAIN request.arguments.claims :
      /\ request.arguments.claims[i] = claim
      /\ Has(request.arguments.nutritionalData, nutrient) }

Given(nutrient) == request.arguments.nutritionalData[nutrient].tenths

\* C22: the claim "low fat" against {totalFat: 2} is judged valid, and
\* against {totalFat: 5} invalid with a reason that names the 3 g threshold.
LowFatScenario ==
  ClaimsToolAnswered =>
    \A i \in Asked("low fat", "totalFat") :
      Given("totalFat") \in {20, 50} =>
        /\ AnswerText.json
        /\ AnswerText.value.claimValidations[i].isValid = (Given("totalFat") = 20)
        /\ Given("totalFat") = 50 =>
             /\ Has(AnswerText.value.claimValidations[i].reason, "threshold")
             /\ AnswerText.value.claimValidations[i].reason.threshold = 30

\* C23: "sodium free" is judged valid exactly when sodium is strictly below
\* 5 mg, and "low fat" exactly when total fat is at most 3 g.
SodiumFreeStrictLowFatInclusive ==
  (ClaimsToolAnswered /\ AnswerText.json) =>
    /\ \A i \in Asked("sodium free", "sodium") :
         AnswerText.value.claimValidations[i].isValid = (Given("sodium") < 50)
    /\ \A i \in Asked("low fat", "totalFat") :
         AnswerText.value.claimValidations[i].isValid = (Given("totalFat") <= 30)

\* C30: "high fiber" is judged valid exactly when dietary fiber is 5 g or
\* more, and "good source of fiber" exactly when it is at least 2.5 g.
FiberMinimums ==
  (ClaimsToolAnswered /\ AnswerText.json) =>
    /\ \A i \in Asked("high fiber", "dietaryFiber") :
         AnswerText.value.claimValidations[i].isValid = (Given("dietaryFiber") >= 50)
    /\ \A i \in Asked("good source of fiber", "dietaryFiber") :
         AnswerText.value.claimValidations[i].isValid = (Given("dietaryFiber") >= 25)

IngredientsCallReturned ==
  /\ fpc = "returned"
  /\ fcall.entry = "validateIngredientsWithFDA"

\* C26: when the capability responds but result.content[0] is missing or
\* its text is not JSON, validateIngredientsWithFDA returns a finding that
\* reports the failure, never a validation without such an issue.
UninterpretablePayloadIsReported ==
  (/\ IngredientsCallReturned
   /\ lastClose.code = 0
   /\ lastClose.line.parsable
   /\ ~CapabilityResponded) =>
    \E f \in Range(fresult.fdaValidation.issues) : f.type # "FDA_NO_INGREDIENTS"

\* C29: for every ingredient of the response that the server did not
\* classify GRAS, the result holds an INFO recommendation of type
\* FDA_GRAS_RECOMMENDATION naming it; for an ingredient classified GRAS it
\* holds none.
NonGRASGetsRecommendation ==
  (IngredientsCallReturned /\ CapabilityResponded) =>
    \A i \in DOMAIN ToolPayload.validationResults :
      LET v == ToolPayload.validationResults[i] IN
        (v.grasStatus # "GRAS")
          <=> \E f \in FindingsWith(fresult.fdaValidation.recommendations, "ingredient") :
                /\ f.type = "FDA_GRAS_RECOMMENDATION"
                /\ f.severity = "INFO"
                /\ f.ingredient = v.ingredient


(* ===================== properties of the quality gate ================== *)

\* an object without one of its keys
Without(obj, key) == [k \in (DOMAIN obj) \ {key} |-> obj[k]]

AloneResults(r) ==
  { RunFailed(m) : m \in {"connect failed", "start failed", "workflow failed"} }
    \cup { [success |-> TRUE, workflowId |-> WorkflowInput(r).workflowId, result |-> res] :
             res \in WorkflowResults(WorkflowInput(r)) }

\* C25: concurrent runs share no mutable state: under every interleaving of
\* two runs the lazily initialised client handle is created at most once
\* and is the only thing the module keeps, and each run's result is one it
\* would produce when executed alone.
ConcurrentRunsShareNothing ==
  /\ clientsCreated <= 1
  /\ \A r \in Runs : runpc[r] = "returned" => runResult[r] \in AloneResults(r)


(* =================== properties of /test-mcp-health =================== *)

OcrEngineFailed ==
  /\ ocrResponse # Null
  /\ Has(ocrResponse.ocrResult, "success") /\ ~ocrResponse.ocrResult.success

\* C28: in the /ocr-validate handler, if the OCR engine fails for the
\* uploaded file, the handler responds with the error 'OCR processing
\* failed', invokes neither the AI validation nor the FDA validation, and
\* never sends a response with success = true.
OcrFailureIsAnsweredAsError ==
  (ovpc = "responded" /\ OcrEngineFailed) =>
    /\ Has(ovResponse.body, "error") /\ ovResponse.body.error = "OCR processing failed"
    /\ "runSimpleAIValidation" \notin Range(invoked)
    /\ "validateIngredientsWithFDA" \notin Range(invoked)
    /\ ~(Has(ovResponse.body, "success") /\ ovResponse.body.success = TRUE)


====
